---- MODULE Spec2Model ----
(***************************************************************************)
(* Model of the multi-tool weather/time agent: the six tool operations of  *)
(* agent.py with the services they delegate to (services/utils.py,         *)
(* services/time_service.py, services/weather.py).  Every request is one   *)
(* synchronous call; the external collaborators (geocoder, timezone index, *)
(* timezone database, weather provider, clock) are the environment.        *)
(***************************************************************************)
EXTENDS Integers, Sequences, FiniteSets, TLC

VARIABLES
    has_api_key,   \* WeatherService.has_api_key, fixed at construction
    clock,         \* the reference clock, in seconds
    op,            \* the tool operation served last ("idle" before the first)
    args,          \* its arguments as the caller passed them
    env,           \* what the geocoder and the weather provider answered while serving it
    resp,          \* its outcome: a returned envelope or a raised exception
    geocode_log,   \* the geocoder queries issued while serving it, in order
    tz_lookups,    \* the number of timezone-index lookups while serving it
    http_log,      \* the weather-provider requests issued while serving it
    reads          \* the clock reads made while serving it, in order

vars == <<has_api_key, clock, op, args, env, resp, geocode_log, tz_lookups, http_log, reads>>

(***************************************************************************)
(* Bounds of the model.                                                    *)
(***************************************************************************)
MaxClock == 3      \* the clock runs over 0..MaxClock
MaxDrift == 1      \* how far the clock may advance between two statements
DstAt == 2         \* the instant at which daylight saving starts in the DST zones
MaxList == 12      \* longest city list handed to get_world_clock
MaxSeries == 17    \* longest forecast series the provider answers with

(***************************************************************************)
(* Strings are sequences of one-character strings, so that strip(),        *)
(* lower() and title() are computed and not assumed.                       *)
(***************************************************************************)
\* F(v), with v evaluated once
Force(F(_), v) == CHOOSE r \in {F(x) : x \in {v}} : TRUE

\* the lower-case letter of each upper-case letter, and the reverse
ToLower ==
    ("A" :> "a") @@ ("B" :> "b") @@ ("C" :> "c") @@ ("D" :> "d") @@ ("E" :> "e") @@ ("F" :> "f") @@ ("G" :> "g")
    @@ ("H" :> "h") @@ ("I" :> "i") @@ ("J" :> "j") @@ ("K" :> "k") @@ ("L" :> "l") @@ ("M" :> "m") @@ ("N" :> "n")
    @@ ("O" :> "o") @@ ("P" :> "p") @@ ("Q" :> "q") @@ ("R" :> "r") @@ ("S" :> "s") @@ ("T" :> "t") @@ ("U" :> "u")
    @@ ("V" :> "v") @@ ("W" :> "w") @@ ("X" :> "x") @@ ("Y" :> "y") @@ ("Z" :> "z")
ToUpper ==
    ("a" :> "A") @@ ("b" :> "B") @@ ("c" :> "C") @@ ("d" :> "D") @@ ("e" :> "E") @@ ("f" :> "F") @@ ("g" :> "G")
    @@ ("h" :> "H") @@ ("i" :> "I") @@ ("j" :> "J") @@ ("k" :> "K") @@ ("l" :> "L") @@ ("m" :> "M") @@ ("n" :> "N")
    @@ ("o" :> "O") @@ ("p" :> "P") @@ ("q" :> "Q") @@ ("r" :> "R") @@ ("s" :> "S") @@ ("t" :> "T") @@ ("u" :> "U")
    @@ ("v" :> "V") @@ ("w" :> "W") @@ ("x" :> "X") @@ ("y" :> "Y") @@ ("z" :> "Z")

IsSpace(c) == c \in {" ", "\t", "\n"}
IsUpper(c) == c \in DOMAIN ToLower
IsLower(c) == c \in DOMAIN ToUpper
IsCased(c) == IsUpper(c) \/ IsLower(c)

LowerChar(c) == IF IsUpper(c) THEN ToLower[c] ELSE c
UpperChar(c) == IF IsLower(c) THEN ToUpper[c] ELSE c

\* str.lower()
Lower(s) == [i \in DOMAIN s |-> LowerChar(s[i])]

\* str.title(): a cased character is upper-cased after an uncased one (or at the
\* start) and lower-cased after a cased one.
Title(s) ==
    [i \in DOMAIN s |->
        IF i > 1 /\ IsCased(s[i - 1]) THEN LowerChar(s[i]) ELSE UpperChar(s[i])]

RECURSIVE LStrip(_)
LStrip(s) == IF s # <<>> /\ IsSpace(Head(s)) THEN LStrip(Tail(s)) ELSE s
RECURSIVE RStrip(_)
RStrip(s) ==
    IF s # <<>> /\ IsSpace(s[Len(s)]) THEN RStrip(SubSeq(s, 1, Len(s) - 1)) ELSE s

\* str.strip()
Strip(s) == RStrip(LStrip(s))

\* Python truthiness of a string
Truthy(s) == s # <<>>

(***************************************************************************)
(* The city strings the callers pass.                                      *)
(***************************************************************************)
sParis      == <<"P","a","r","i","s">>
sParisLoud  == <<" ","P","A","R","I","S"," ">>
sLondon     == <<"l","o","n","d","o","n">>
sNewYork    == <<"N","e","w"," ","y","o","r","k">>
sLagos      == <<"L","a","g","o","s">>
sSydney     == <<"S","Y","D","N","E","Y">>
sDelhi      == <<"D","e","l","h","i">>
sTehran     == <<"T","e","h","r","a","n">>
sNemo       == <<"N","e","m","o">>
sJuarez     == <<"J","u","a","r","e","z">>
sAtlantis   == <<"A","t","l","a","n","t","i","s">>
sEmpty      == <<>>
sBlank      == <<" "," ">>

CityInputs ==
    {sParis, sParisLoud, sLondon, sNewYork, sDelhi, sNemo, sJuarez, sAtlantis, sEmpty, sBlank}

(***************************************************************************)
(* External collaborators.  The geocoding provider knows the places of     *)
(* Gazetteer and matches case-insensitively; the timezone index maps       *)
(* coordinates to a zone name, or to nothing over open sea; the timezone   *)
(* database knows the zones of TzDatabase and their offsets in minutes.    *)
(***************************************************************************)
Gazetteer ==
    { [name |-> Lower(sParis),   lat |-> 49,  lon |-> 2,    address |-> <<"Paris", "Ile-de-France", "France">>],
      [name |-> Lower(sLondon),  lat |-> 51,  lon |-> 0,    address |-> <<"London", "England", "United Kingdom">>],
      [name |-> Lower(sNewYork), lat |-> 41,  lon |-> -74,  address |-> <<"New York", "United States">>],
      [name |-> Lower(sDelhi),   lat |-> 29,  lon |-> 77,   address |-> <<"Delhi", "India">>],
      [name |-> Lower(sLagos),   lat |-> 6,   lon |-> 3,    address |-> <<"Lagos", "Nigeria">>],
      [name |-> Lower(sTehran),  lat |-> 36,  lon |-> 51,   address |-> <<"Tehran", "Iran">>],
      [name |-> Lower(sNemo),    lat |-> -49, lon |-> -123, address |-> <<"Point Nemo">>],
      [name |-> Lower(sJuarez),  lat |-> 32,  lon |-> -106, address |-> <<"Ciudad Juarez", "Mexico">>] }

\* The first MaxFaultAt geocoder calls of a request may fail; a fault is the
\* call that fails and how.
MaxFaultAt == 2
FaultKinds == {"nomatch", "timeout", "unavailable", "service_error"}
NoFault == [at |-> 0, kind |-> "none"]
Faults == {NoFault} \cup {[at |-> k, kind |-> f] : k \in 1..MaxFaultAt, f \in FaultKinds}

\* the provider's match for a query it has lower-cased
Lookup(q) ==
    IF \E p \in Gazetteer : p.name = q
    THEN [tag |-> "ok", place |-> CHOOSE p \in Gazetteer : p.name = q]
    ELSE [tag |-> "none"]

\* Nominatim.geocode(query, timeout=10), the k-th geocoder call of the request
GeocodeCall(query, k, fault) ==
    IF fault.at = k
    THEN CASE fault.kind = "timeout"       -> [tag |-> "raise", exc |-> "GeocoderTimedOut"]
           [] fault.kind = "unavailable"   -> [tag |-> "raise", exc |-> "GeocoderUnavailable"]
           [] fault.kind = "service_error" -> [tag |-> "raise", exc |-> "GeocoderServiceError"]
           [] OTHER                        -> [tag |-> "none"]
    ELSE Lookup(Lower(query))

\* TimezoneFinder.timezone_at(lat, lng)
timezone_at(lat, lon) ==
    CASE lat = 49 /\ lon = 2    -> [tag |-> "ok", tz |-> "Europe/Paris"]
      [] lat = 51 /\ lon = 0    -> [tag |-> "ok", tz |-> "Europe/London"]
      [] lat = 41 /\ lon = -74  -> [tag |-> "ok", tz |-> "America/New_York"]
      [] lat = 29 /\ lon = 77   -> [tag |-> "ok", tz |-> "Asia/Kolkata"]
      [] lat = 6 /\ lon = 3     -> [tag |-> "ok", tz |-> "Africa/Lagos"]
      [] lat = 36 /\ lon = 51   -> [tag |-> "ok", tz |-> "Asia/Tehran"]
      [] lat = 32 /\ lon = -106 -> [tag |-> "ok", tz |-> "America/Ciudad_Juarez"]
      [] OTHER                  -> [tag |-> "none"]

\* the zones pytz.timezone() accepts
TzDatabase ==
    {"Europe/Paris", "Europe/London", "America/New_York", "Asia/Kolkata", "Africa/Lagos",
     "Asia/Tehran", "UTC"}

\* tzinfo.utcoffset() at UTC instant t, in minutes
UtcOffset(tz, t) ==
    CASE tz = "Europe/Paris"     -> IF t >= DstAt THEN 120 ELSE 60
      [] tz = "Europe/London"    -> IF t >= DstAt THEN 60 ELSE 0
      [] tz = "America/New_York" -> -300
      [] tz = "Asia/Kolkata"     -> 330
      [] tz = "Africa/Lagos"     -> 60
      [] tz = "Asia/Tehran"      -> 210
      [] OTHER                   -> 0

(***************************************************************************)
(* Dates and times.  An aware datetime is its UTC instant (seconds) and    *)
(* its offset (minutes); renderings are computed from the two.             *)
(***************************************************************************)
Abs(x) == IF x < 0 THEN -x ELSE x

\* datetime.now(tz) / astimezone(tz) for a clock read t
At(t, tz) == [utc |-> t, off |-> UtcOffset(tz, t)]

\* the wall-clock reading of an aware datetime, in seconds
Wall(dt) == dt.utc + dt.off * 60

\* datetime.isoformat(): the wall-clock reading with the numeric offset
IsoFormat(dt) == [wall |-> Wall(dt), off |-> dt.off]

\* strftime("%z"): sign, two digits of hours, two digits of minutes
FormatZ(dt) ==
    [sign |-> IF dt.off < 0 THEN "-" ELSE "+", hh |-> Abs(dt.off) \div 60, mm |-> Abs(dt.off) % 60]

Weekdays == <<"Thursday", "Friday", "Saturday", "Sunday", "Monday", "Tuesday", "Wednesday">>

\* strftime("%A"): instant 0 is a Thursday
DayOfWeek(dt) == Weekdays[((Wall(dt) \div 86400) % 7) + 1]

(***************************************************************************)
(* The result of a call: a returned envelope or an escaping exception.     *)
(***************************************************************************)
Returned(envelope) == [kind |-> "returned", value |-> envelope]
Raised(exc) == [kind |-> "raised", exc |-> exc]

ErrorEnvelope(message) == [status |-> "error", error_message |-> message]
SuccessEnvelope(report, data) == [status |-> "success", report |-> report, data |-> data]

(***************************************************************************)
(* services/utils.py: LocationUtils.  Each operator returns what the       *)
(* method returns (tag "ok" / "none") or the exception that escapes it     *)
(* (tag "raise").                                                          *)
(***************************************************************************)
\* the exceptions get_coordinates catches (line 35)
CaughtGeocoderErrors == {"GeocoderTimedOut", "GeocoderUnavailable"}

\* lines 32-37, for the outcome of the geocoder call
CoordinatesOf(location) ==
    CASE location.tag = "ok"   -> [tag |-> "ok", lat |-> location.place.lat, lon |-> location.place.lon]
      [] location.tag = "none" -> [tag |-> "none"]
      [] OTHER -> IF location.exc \in CaughtGeocoderErrors THEN [tag |-> "none"] ELSE location

get_coordinates(city, k, fault) == CoordinatesOf(GeocodeCall(city, k, fault))

\* lines 50-54, for the coordinates found; lookups counts the timezone-index lookups
ZoneFound(timezone_str) ==
    IF timezone_str.tag = "ok"
    THEN [tag |-> "ok", tz |-> timezone_str.tz, lookups |-> 1]
    ELSE [tag |-> "none", tz |-> "", lookups |-> 1]

TimezoneOf(coordinates) ==
    CASE coordinates.tag = "ok"   -> ZoneFound(timezone_at(coordinates.lat, coordinates.lon))
      [] coordinates.tag = "none" -> [tag |-> "none", tz |-> "", lookups |-> 0]
      [] OTHER                    -> [tag |-> "raise", exc |-> coordinates.exc, lookups |-> 0]

\* the zone name, nothing, or the escaping exception
get_timezone(city, k, fault) == TimezoneOf(get_coordinates(city, k, fault))

\* lines 94-114: the address of the second geocoder answer; any exception of
\* that call is swallowed
AddressOf(location) == IF location.tag = "ok" THEN location.place.address ELSE <<>>
CountryOf(address) == IF address # <<>> THEN address[Len(address)] ELSE "Unknown"

\* lines 82-114, for the coordinates found and the second geocoder answer
CityInfoOf(city, coordinates, location) ==
    CASE coordinates.tag = "raise" ->
            [tag |-> "raise", exc |-> coordinates.exc, geo |-> <<city>>, lookups |-> 0]
      [] coordinates.tag = "none" ->
            [tag |-> "ok", geo |-> <<city>>, lookups |-> 0,
             info |-> [success |-> FALSE, error |-> [kind |-> "location_not_found", city |-> city]]]
      [] OTHER ->
            [tag |-> "ok", geo |-> <<city, city>>, lookups |-> 1,
             info |-> [success |-> TRUE,
                       city |-> city,
                       latitude |-> coordinates.lat,
                       longitude |-> coordinates.lon,
                       timezone |-> timezone_at(coordinates.lat, coordinates.lon),
                       full_address |-> AddressOf(location),
                       country |-> CountryOf(AddressOf(location))]]

\* LocationUtils.get_city_info
LocationCityInfo(city, fault) ==
    CityInfoOf(city, get_coordinates(city, 1, fault), GeocodeCall(city, 2, fault))

(***************************************************************************)
(* services/time_service.py: TimeService.  t1 and t2 are the clock at the  *)
(* first and at the second clock read of the request.  Each operator       *)
(* returns [out, geo, lookups, reads]: the outcome, the geocoder queries,  *)
(* the timezone-index lookups and the clock reads made.                    *)
(***************************************************************************)
_format_standard_time(city, now, tz) ==
    [format |-> "standard", city |-> Title(city), time |-> Wall(now), zone |-> tz]

_format_detailed_time(city, now, tz, utc_now) ==
    [format |-> "detailed", city |-> Title(city), time |-> Wall(now), day |-> DayOfWeek(now),
     zone |-> tz, utc_offset |-> FormatZ(now), utc_time |-> Wall(utc_now)]

_format_utc_time(city, now, utc_now) ==
    [format |-> "utc", city |-> Title(city), time |-> Wall(now),
     utc_offset |-> FormatZ(now), utc_time |-> Wall(utc_now)]

\* the clock reads behind now and utc_now (lines 46-47)
ReadNow(t1, t2) == t1
ReadUtcNow(t1, t2) == t2

\* lines 49-69
CurrentTimeSuccess(city, format_type, tz, now, utc_now) ==
    [out |-> Returned(SuccessEnvelope(
                CASE format_type = "detailed" -> _format_detailed_time(city, now, tz, utc_now)
                  [] format_type = "utc"      -> _format_utc_time(city, now, utc_now)
                  [] OTHER                    -> _format_standard_time(city, now, tz),
                [city |-> city,
                 timezone |-> tz,
                 local_time |-> IsoFormat(now),
                 utc_time |-> IsoFormat(utc_now),
                 formatted_time |-> Wall(now),
                 day_of_week |-> DayOfWeek(now),
                 utc_offset |-> FormatZ(now)])),
     geo |-> <<city>>, lookups |-> 1, reads |-> <<now.utc, utc_now.utc>>]

\* lines 35-81, for the zone get_timezone gave
CurrentTimeOf(city, format_type, timezone_str, t1, t2) ==
    CASE timezone_str.tag = "raise" ->
            [out |-> Raised(timezone_str.exc), geo |-> <<city>>, lookups |-> 0, reads |-> <<>>]
      [] timezone_str.tag = "none" ->
            [out |-> Returned(ErrorEnvelope([kind |-> "timezone_undetermined", city |-> city])),
             geo |-> <<city>>, lookups |-> timezone_str.lookups, reads |-> <<>>]
      [] timezone_str.tz \notin TzDatabase ->
            [out |-> Returned(ErrorEnvelope(
                        [kind |-> "unknown_timezone", tz |-> timezone_str.tz, city |-> city])),
             geo |-> <<city>>, lookups |-> 1, reads |-> <<>>]
      [] OTHER ->
            CurrentTimeSuccess(city, format_type, timezone_str.tz,
                               At(ReadNow(t1, t2), timezone_str.tz), At(ReadUtcNow(t1, t2), "UTC"))

\* TimeService.get_current_time; k is the number of the geocoder call it makes
TimeCurrentTime(city, format_type, k, fault, t1, t2) ==
    CurrentTimeOf(city, format_type, get_timezone(city, k, fault), t1, t2)

\* the magnitude always in the plural
TimeDiffStrPlural(d) ==
    [hours |-> Abs(d) \div 60, hour_word |-> "hours", with_minutes |-> Abs(d) % 60 # 0,
     minutes |-> Abs(d) % 60, minute_word |-> IF Abs(d) % 60 # 0 THEN "minutes" ELSE ""]

\* the rendering of the magnitude of a difference of d minutes (lines 130-137).
\* The code works on float hours; the offsets in force in the timezone
\* database are multiples of 15 minutes, so the hours are multiples of 1/4,
\* exact in binary floating point, and int((hours_diff - hours) * 60) is the
\* exact remainder in minutes.
TimeDiffStr(d) ==
    IF Abs(d) % 60 = 0
    THEN [hours |-> Abs(d) \div 60, hour_word |-> IF Abs(d) # 60 THEN "hours" ELSE "hour",
          with_minutes |-> FALSE, minutes |-> 0, minute_word |-> ""]
    ELSE [hours |-> Abs(d) \div 60, hour_word |-> IF Abs(d) \div 60 # 1 THEN "hours" ELSE "hour",
          with_minutes |-> TRUE, minutes |-> Abs(d) % 60,
          minute_word |-> IF Abs(d) % 60 # 1 THEN "minutes" ELSE "minute"]

\* the difference as a magnitude
DifferenceUnsigned(offset1, offset2) == Abs(offset1 - offset2)

\* offset1 - offset2 (line 122); hours are kept exactly, as minutes
Difference(offset1, offset2) == offset1 - offset2

\* lines 125-142
TimeDifferenceReport(city1, city2, time1, time2, difference) ==
    IF difference = 0
    THEN [relation |-> "same_zone", city1 |-> Title(city1), city2 |-> Title(city2),
          time1 |-> Wall(time1), time2 |-> Wall(time2)]
    ELSE [relation |-> "ahead",
          ahead_city |-> IF difference > 0 THEN Title(city1) ELSE Title(city2),
          behind_city |-> IF difference > 0 THEN Title(city2) ELSE Title(city1),
          time_diff_str |-> TimeDiffStr(difference),
          city1 |-> Title(city1), city2 |-> Title(city2),
          time1 |-> Wall(time1), time2 |-> Wall(time2)]

\* lines 144-156
TimeDifferenceSuccess(city1, city2, tz1, tz2, time1, time2, difference) ==
    [out |-> Returned(SuccessEnvelope(
                TimeDifferenceReport(city1, city2, time1, time2, difference),
                [city1 |-> city1,
                 city2 |-> city2,
                 timezone1 |-> tz1,
                 timezone2 |-> tz2,
                 time1 |-> IsoFormat(time1),
                 time2 |-> IsoFormat(time2),
                 difference_hours |-> difference])),
     geo |-> <<city1, city2>>, lookups |-> 2, reads |-> <<time1.utc>>]

\* lines 115-122: both zones are taken at the one instant now_utc
TimeDifferenceAt(city1, city2, tz1, tz2, now_utc) ==
    TimeDifferenceSuccess(city1, city2, tz1, tz2, At(now_utc, tz1), At(now_utc, tz2),
                          Difference(At(now_utc, tz1).off, At(now_utc, tz2).off))

\* lines 95-163, for the zones get_timezone gave
TimeDifferenceOf(city1, city2, tz1_str, tz2_str, t) ==
    CASE tz1_str.tag = "raise" ->
            [out |-> Raised(tz1_str.exc), geo |-> <<city1>>, lookups |-> 0, reads |-> <<>>]
      [] tz2_str.tag = "raise" ->
            [out |-> Raised(tz2_str.exc), geo |-> <<city1, city2>>,
             lookups |-> tz1_str.lookups, reads |-> <<>>]
      [] tz1_str.tag = "none" ->
            [out |-> Returned(ErrorEnvelope([kind |-> "timezone_undetermined", city |-> city1])),
             geo |-> <<city1, city2>>, lookups |-> tz1_str.lookups + tz2_str.lookups,
             reads |-> <<>>]
      [] tz2_str.tag = "none" ->
            [out |-> Returned(ErrorEnvelope([kind |-> "timezone_undetermined", city |-> city2])),
             geo |-> <<city1, city2>>, lookups |-> tz1_str.lookups + tz2_str.lookups,
             reads |-> <<>>]
      [] tz1_str.tz \notin TzDatabase \/ tz2_str.tz \notin TzDatabase ->
            [out |-> Returned(ErrorEnvelope(
                        [kind |-> "time_difference_failed", city1 |-> city1, city2 |-> city2])),
             geo |-> <<city1, city2>>, lookups |-> 2, reads |-> <<>>]
      [] OTHER -> TimeDifferenceAt(city1, city2, tz1_str.tz, tz2_str.tz, t)

\* TimeService.get_time_difference
TimeTimeDifference(city1, city2, fault, t) ==
    TimeDifferenceOf(city1, city2, get_timezone(city1, 1, fault), get_timezone(city2, 2, fault), t)

\* the status get_world_clock returns for the collected results (lines 197-211)
WorldClockStatus(results, errors) == IF results = <<>> THEN "error" ELSE "success"

\* where the loop files the outcome of one city (line 186)
IsSuccess(time_info) == time_info.status = "success"

\* does get_current_time read the clock for this zone (it does once the zone is known)
ZoneKnown(timezone_str) == timezone_str.tag = "ok" /\ timezone_str.tz \in TzDatabase

\* the get_current_time call for city i of the loop (line 185); the first clock
\* read of the request sees t1, every later one t2.  read[j] tells whether the
\* call for city j read the clock.
WorldClockCall(cities, i, fault, t1, t2, read) ==
    TimeCurrentTime(cities[i], "standard", i, fault,
        IF \E j \in 1..(i - 1) : read[j] THEN t2 ELSE t1, t2)

\* the calls of the loop in order, up to the first that raises
FirstOf(raising) == CHOOSE i \in raising : \A j \in raising : i <= j
CutAt(calls, raising) == IF raising = {} THEN calls ELSE SubSeq(calls, 1, FirstOf(raising))
UpToFirstRaise(calls) == CutAt(calls, {i \in DOMAIN calls : calls[i].out.kind = "raised"})

\* lines 187-195: a success is appended to results, anything else to errors
ResultOf(call) ==
    [city |-> Title(call.geo[1]),
     time |-> call.out.value.data.formatted_time,
     timezone |-> call.out.value.data.timezone,
     day |-> call.out.value.data.day_of_week]
ErrorOf(call) == [city |-> call.geo[1], message |-> call.out.value.error_message]

Filed(made, filed_ok, filed_err) ==
    [raised |-> Len(filed_ok) + Len(filed_err) < Len(made),
     exc |-> IF Len(filed_ok) + Len(filed_err) < Len(made) THEN made[Len(made)].out.exc ELSE "",
     results |-> [i \in DOMAIN filed_ok |-> ResultOf(filed_ok[i])],
     errors |-> [i \in DOMAIN filed_err |-> ErrorOf(filed_err[i])],
     geo |-> [i \in DOMAIN made |-> made[i].geo[1]],
     lookups |-> Cardinality({i \in DOMAIN made : made[i].lookups > 0}),
     reads |-> [r \in 1..(2 * Len(filed_ok)) |-> filed_ok[(r + 1) \div 2].reads[2 - (r % 2)]]]

WorldClockFiled(made) ==
    Filed(made,
          SelectSeq(made, LAMBDA c : c.out.kind = "returned" /\ IsSuccess(c.out.value)),
          SelectSeq(made, LAMBDA c : c.out.kind = "returned" /\ ~IsSuccess(c.out.value)))

\* the loop of get_world_clock (lines 184-195)
WorldClockLoop(cities, fault, t1, t2) ==
    Force(LAMBDA read :
            Force(LAMBDA calls : Force(WorldClockFiled, UpToFirstRaise(calls)),
                  SubSeq([i \in DOMAIN cities |->
                            WorldClockCall(cities, i, fault, t1, t2, read)], 1, Len(cities))),
          SubSeq([i \in DOMAIN cities |-> ZoneKnown(get_timezone(cities[i], i, fault))],
                 1, Len(cities)))

\* the report of get_world_clock (lines 204-209): the header, one line per
\* result, then the errors if there are any
WorldClockReport(results, errors) ==
    <<[segment |-> "header"]>>
    \o [i \in DOMAIN results |->
            [segment |-> "line", city |-> results[i].city, time |-> results[i].time,
             day |-> results[i].day]]
    \o (IF errors # <<>> THEN <<[segment |-> "errors", errors |-> errors]>> ELSE <<>>)

\* lines 197-220, for what the loop left behind
WorldClockOf(cities, done) ==
    [out |-> IF done.raised THEN Raised(done.exc)
             ELSE IF WorldClockStatus(done.results, done.errors) = "error"
             THEN Returned(ErrorEnvelope([kind |-> "no_city_resolved", errors |-> done.errors]))
             ELSE Returned(SuccessEnvelope(
                     WorldClockReport(done.results, done.errors),
                     [results |-> done.results,
                      errors |-> done.errors,
                      total_cities |-> Len(cities),
                      successful_cities |-> Len(done.results)])),
     geo |-> done.geo, lookups |-> done.lookups, reads |-> done.reads]

NoCalls(envelope) == [out |-> Returned(envelope), geo |-> <<>>, lookups |-> 0, reads |-> <<>>]

\* TimeService.get_world_clock
TimeWorldClock(cities, fault, t1, t2) ==
    IF cities = <<>>
    THEN NoCalls(ErrorEnvelope([kind |-> "no_cities"]))
    ELSE Force(LAMBDA done : WorldClockOf(cities, done), WorldClockLoop(cities, fault, t1, t2))

(***************************************************************************)
(* services/weather.py: WeatherService.  http is the provider's answer to  *)
(* the one HTTP call a request may make.  Temperatures and speeds are kept *)
(* in tenths.  Each operator returns [out, http]: the outcome and the      *)
(* provider requests made.                                                 *)
(***************************************************************************)
sMetric   == <<"m","e","t","r","i","c">>
sImperial == <<"i","m","p","e","r","i","a","l">>
sKelvin   == <<"k","e","l","v","i","n">>
sMetricUp == <<"M","e","t","r","i","c">>
sBogus    == <<"b","o","g","u","s">>

UnitInputs == {sMetric, sImperial, sKelvin, sMetricUp, sBogus}
ValidUnits == {sMetric, sImperial, sKelvin}

DEFAULT_LANGUAGE == "en"

\* the offline table of _get_mock_weather (lines 223-254), keyed by lower-case name
mock_data ==
    { [key |-> <<"n","e","w"," ","y","o","r","k">>, temp |-> 225, condition |-> "partly cloudy",
       humidity |-> 65, wind_speed |-> 32],
      [key |-> <<"l","o","n","d","o","n">>, temp |-> 158, condition |-> "overcast",
       humidity |-> 78, wind_speed |-> 21],
      [key |-> <<"l","a","g","o","s">>, temp |-> 313, condition |-> "sunny",
       humidity |-> 55, wind_speed |-> 18],
      [key |-> <<"p","a","r","i","s">>, temp |-> 187, condition |-> "light rain",
       humidity |-> 82, wind_speed |-> 25],
      [key |-> <<"s","y","d","n","e","y">>, temp |-> 241, condition |-> "clear sky",
       humidity |-> 60, wind_speed |-> 41] }

MockCities == {m.key : m \in mock_data}

\* city_lower in mock_data (lines 256-257)
InMockData(city_lower) == city_lower \in MockCities

\* lines 258-270
MockSuccess(city, m) ==
    Returned(SuccessEnvelope(
        [source |-> "demo", city |-> Title(city), temperature |-> m.temp,
         temp_unit |-> "C", condition |-> m.condition, humidity |-> m.humidity,
         wind |-> m.wind_speed, speed_unit |-> "m/s"],
        [temp |-> m.temp, condition |-> m.condition, humidity |-> m.humidity,
         wind_speed |-> m.wind_speed]))

MockFor(city, city_lower) ==
    IF InMockData(city_lower)
    THEN MockSuccess(city, CHOOSE x \in mock_data : x.key = city_lower)
    ELSE Returned(ErrorEnvelope([kind |-> "demo_unavailable", city |-> city,
                                 supported |-> MockCities]))

\* the table looked up with the city as typed
_get_mock_weather_as_typed(city) == MockFor(city, city)

_get_mock_weather(city) == MockFor(city, Lower(city))

_get_temperature_unit(units) ==
    CASE units = sMetric   -> "C"
      [] units = sImperial -> "F"
      [] units = sKelvin   -> "K"
      [] OTHER             -> "C"

_get_speed_unit(units) ==
    CASE units = sMetric   -> "m/s"
      [] units = sImperial -> "mph"
      [] units = sKelvin   -> "m/s"
      [] OTHER             -> "m/s"

\* JSON bodies the provider answers with.  A missing key is has_x = FALSE.
Cod(type, value) == [type |-> type, value |-> value]

GoodEntry(i) == [dt_txt |-> i, well_formed |-> TRUE]

WeatherBody ==
    [empty |-> FALSE, cod |-> Cod("int", 200), has_message |-> FALSE, message |-> "",
     has_main |-> TRUE, has_temp |-> TRUE, temp_is_number |-> TRUE, temp |-> 204, feels_like |-> 197,
     humidity |-> 70, has_pressure |-> TRUE, pressure |-> 1013,
     has_weather |-> TRUE, weather |-> <<[description |-> "broken clouds"]>>,
     has_wind |-> TRUE, has_speed |-> TRUE, speed |-> 36,
     has_visibility |-> TRUE, visibility |-> 10000,
     has_list |-> FALSE, list |-> <<>>]

ForecastBody(n) ==
    [WeatherBody EXCEPT !.cod = Cod("str", 200), !.has_main = FALSE, !.has_weather = FALSE,
                        !.weather = <<>>, !.has_wind = FALSE, !.has_visibility = FALSE,
                        !.has_list = TRUE, !.list = [i \in 1..n |-> GoodEntry(i)]]

WeatherBodies ==
    { WeatherBody,
      [WeatherBody EXCEPT !.empty = TRUE],
      [WeatherBody EXCEPT !.cod = Cod("str", 200)],
      [WeatherBody EXCEPT !.cod = Cod("str", 404), !.has_message = TRUE, !.message = "city not found"],
      [WeatherBody EXCEPT !.cod = Cod("int", 500)],
      [WeatherBody EXCEPT !.cod = Cod("none", 0)],
      [WeatherBody EXCEPT !.has_main = FALSE],
      [WeatherBody EXCEPT !.has_temp = FALSE],
      [WeatherBody EXCEPT !.temp_is_number = FALSE],
      [WeatherBody EXCEPT !.has_pressure = FALSE],
      [WeatherBody EXCEPT !.has_weather = FALSE],
      [WeatherBody EXCEPT !.weather = <<>>],
      [WeatherBody EXCEPT !.has_wind = FALSE],
      [WeatherBody EXCEPT !.has_speed = FALSE],
      [WeatherBody EXCEPT !.has_visibility = FALSE] }

SeriesLengths == 0..MaxSeries \cup {8 * d : d \in 1..5}

ForecastBodies ==
    { ForecastBody(n) : n \in SeriesLengths }
    \cup { [ForecastBody(9) EXCEPT !.empty = TRUE],
           [ForecastBody(9) EXCEPT !.cod = Cod("int", 200)],
           [ForecastBody(9) EXCEPT !.cod = Cod("str", 404), !.has_message = TRUE,
                                   !.message = "city not found"],
           [ForecastBody(9) EXCEPT !.has_list = FALSE],
           [ForecastBody(9) EXCEPT !.list[9] = [dt_txt |-> 9, well_formed |-> FALSE]] }

\* what requests.get / raise_for_status / response.json do (lines 44-46)
TransportFailures == {"connection_error", "timeout", "http_error", "invalid_json"}
HttpOutcomes(bodies) ==
    {[kind |-> f, body |-> WeatherBody] : f \in TransportFailures}
    \cup {[kind |-> "http_error",
           body |-> [WeatherBody EXCEPT !.cod = Cod("int", 401), !.has_message = TRUE,
                                        !.message = "invalid api key"]]}
    \cup {[kind |-> "json", body |-> b] : b \in bodies}

NoHttp == [kind |-> "unused", body |-> WeatherBody]

\* _make_api_request: the parsed body, or nothing; calls counts the HTTP calls
_make_api_request(key, http) ==
    IF ~key THEN [tag |-> "none", data |-> WeatherBody, calls |-> 0]
    ELSE IF http.kind = "json"
         THEN [tag |-> "ok", data |-> http.body, calls |-> 1]
         ELSE [tag |-> "none", data |-> WeatherBody, calls |-> 1]

\* the requests that reached the provider
Sent(data, request) == IF data.calls > 0 THEN <<request>> ELSE <<>>

\* "not data": nothing came back, or an empty object
NoData(data) == data.tag = "none" \/ data.data.empty

\* wind.get('speed', 0) with wind = data.get('wind', {})
WindSpeed(data) == IF data.has_wind /\ data.has_speed THEN data.speed ELSE 0

\* the keys whose absence raises the KeyError / IndexError caught at line 158
WeatherParses(data) == data.has_main /\ data.has_weather /\ data.weather # <<>> /\ data.has_temp

_format_weather_response(data, city, units) ==
    IF ~WeatherParses(data)
    THEN Returned(ErrorEnvelope([kind |-> "weather_parse_failed"]))
    ELSE IF ~data.temp_is_number
    THEN Raised("TypeError")
    ELSE Returned(SuccessEnvelope(
            [source |-> "live", city |-> Title(city), temperature |-> data.temp,
             feels_like |-> data.feels_like, temp_unit |-> _get_temperature_unit(units),
             condition |-> data.weather[1].description, humidity |-> data.humidity,
             wind |-> WindSpeed(data), speed_unit |-> _get_speed_unit(units),
             with_visibility |-> data.has_visibility,
             with_pressure |-> data.has_pressure],
            [temperature |-> data.temp,
             feels_like |-> data.feels_like,
             condition |-> data.weather[1].description,
             humidity |-> data.humidity,
             wind_speed |-> WindSpeed(data),
             pressure |-> [present |-> data.has_pressure,
                           value |-> IF data.has_pressure THEN data.pressure ELSE 0],
             units |-> units]))

WeatherRequest(endpoint, city, units, cnt) ==
    [endpoint |-> endpoint, q |-> city, units |-> units, lang |-> DEFAULT_LANGUAGE, cnt |-> cnt]

\* lines 73-86, for what _make_api_request gave
CurrentWeatherOf(city, units, data) ==
    IF NoData(data)
    THEN Returned(ErrorEnvelope([kind |-> "weather_fetch_failed", city |-> city]))
    ELSE IF data.data.cod # Cod("int", 200)
    THEN Returned(ErrorEnvelope(
            IF data.data.has_message
            THEN [kind |-> "provider_message", message |-> data.data.message]
            ELSE [kind |-> "weather_unavailable", city |-> city]))
    ELSE _format_weather_response(data.data, city, units)

\* an offline reading labelled with the symbols of the units asked for
MockInUnits(out, units) ==
    IF out.value.status = "success"
    THEN [out EXCEPT !.value.report.temp_unit = _get_temperature_unit(units),
                     !.value.report.speed_unit = _get_speed_unit(units)]
    ELSE out
WeatherCurrentWeatherInUnits(city, units, key, http) ==
    IF ~key
    THEN [out |-> MockInUnits(_get_mock_weather(city), units), http |-> <<>>]
    ELSE [out |-> CurrentWeatherOf(city, units, _make_api_request(key, http)),
          http |-> Sent(_make_api_request(key, http), WeatherRequest("weather", city, units, 0))]

\* WeatherService.get_current_weather
WeatherCurrentWeather(city, units, key, http) ==
    IF ~key
    THEN [out |-> _get_mock_weather(city), http |-> <<>>]
    ELSE [out |-> CurrentWeatherOf(city, units, _make_api_request(key, http)),
          http |-> Sent(_make_api_request(key, http), WeatherRequest("weather", city, units, 0))]

Min(a, b) == IF a < b THEN a ELSE b
Max(a, b) == IF a > b THEN a ELSE b

\* data['list'][:days * 8:8] (line 168)
RECURSIVE SampleFrom(_, _, _)
SampleFrom(list, i, stop) ==
    IF i > stop \/ i > Len(list) THEN <<>>
    ELSE <<list[i]>> \o SampleFrom(list, i + 8, stop)

\* the first entries of the series, one per day asked for
SampleForecastsLeading(list, days) == SubSeq(list, 1, Min(days, Len(list)))

SampleForecasts(list, days) == SampleFrom(list, 1, days * 8)

\* lines 169-186, for the sampled entries
ForecastOf(forecasts, city, units) ==
    IF \E i \in DOMAIN forecasts : ~forecasts[i].well_formed
    THEN Returned(ErrorEnvelope([kind |-> "forecast_parse_failed"]))
    ELSE Returned(SuccessEnvelope(
            [source |-> "live", city |-> Title(city), temp_unit |-> _get_temperature_unit(units),
             lines |-> [i \in DOMAIN forecasts |-> [day |-> i, date |-> forecasts[i].dt_txt]]],
            [forecasts |-> forecasts, units |-> units]))

_format_forecast_response(data, city, units, days) ==
    IF ~data.has_list
    THEN Returned(ErrorEnvelope([kind |-> "forecast_parse_failed"]))
    ELSE ForecastOf(SampleForecasts(data.list, days), city, units)

\* lines 113-121, for what _make_api_request gave
WeatherForecastOf(city, units, days, data) ==
    IF NoData(data) \/ data.data.cod # Cod("str", 200)
    THEN Returned(ErrorEnvelope([kind |-> "forecast_fetch_failed", city |-> city]))
    ELSE _format_forecast_response(data.data, city, units, days)

\* a forecast that falls back to the offline table, as the current weather does
WeatherForecastWithFallback(city, units, days, key, http) ==
    IF ~key
    THEN [out |-> _get_mock_weather(city), http |-> <<>>]
    ELSE [out |-> WeatherForecastOf(city, units, days, _make_api_request(key, http)),
          http |-> Sent(_make_api_request(key, http),
                        WeatherRequest("forecast", city, units, Min(days * 8, 40)))]

\* WeatherService.get_weather_forecast
WeatherForecast(city, units, days, key, http) ==
    IF ~key
    THEN [out |-> Returned(ErrorEnvelope([kind |-> "forecast_requires_key"])), http |-> <<>>]
    ELSE [out |-> WeatherForecastOf(city, units, days, _make_api_request(key, http)),
          http |-> Sent(_make_api_request(key, http),
                        WeatherRequest("forecast", city, units, Min(days * 8, 40)))]

(***************************************************************************)
(* agent.py: the tool surface.                                             *)
(***************************************************************************)
\* the check without the strip(): "not city"
IsEmptyCityUnstripped(city) == ~Truthy(city)

\* "not city or not city.strip()"
IsEmptyCity(city) == ~Truthy(city) \/ ~Truthy(Strip(city))

EmptyCityError(which) == ErrorEnvelope([kind |-> "empty_city", argument |-> which])

\* units passed on as given, without the default
DefaultUnitsKept(units_lower) == units_lower

\* units.lower(), then the default for a value outside the three units
DefaultUnits(units_lower) == IF units_lower \in ValidUnits THEN units_lower ELSE sMetric
NormalizeUnits(units) == DefaultUnits(Lower(units))

sStandard == <<"s","t","a","n","d","a","r","d">>
sDetailed == <<"d","e","t","a","i","l","e","d">>
sUtc      == <<"u","t","c">>
sUtcUp    == <<"U","T","C">>

FormatInputs == {sStandard, sDetailed, sUtc, sUtcUp, sBogus}

\* format_type.lower(), then the default; the services compare against names
DefaultFormat(format_lower) ==
    CASE format_lower = sDetailed -> "detailed"
      [] format_lower = sUtc      -> "utc"
      [] OTHER                    -> "standard"
NormalizeFormat(format_type) == DefaultFormat(Lower(format_type))

\* The days argument as the caller passes it: an int, a float (in tenths), a
\* string or None.
DaysInt(n)     == [type |-> "int",   v |-> n, text |-> <<>>]
DaysFloat(n)   == [type |-> "float", v |-> n, text |-> <<>>]
DaysStr(chars) == [type |-> "str",   v |-> 0, text |-> chars]
DaysNone       == [type |-> "none",  v |-> 0, text |-> <<>>]

DigitValue ==
    ("0" :> 0) @@ ("1" :> 1) @@ ("2" :> 2) @@ ("3" :> 3) @@ ("4" :> 4)
    @@ ("5" :> 5) @@ ("6" :> 6) @@ ("7" :> 7) @@ ("8" :> 8) @@ ("9" :> 9)
IsDigit(c) == c \in DOMAIN DigitValue

RECURSIVE DigitsValue(_, _)
DigitsValue(chars, acc) ==
    IF chars = <<>> THEN acc ELSE DigitsValue(Tail(chars), acc * 10 + DigitValue[Head(chars)])

\* int(str) of a stripped string: an optional sign, then decimal digits
ParseSigned(negative, digits) ==
    IF digits # <<>> /\ \A i \in DOMAIN digits : IsDigit(digits[i])
    THEN [tag |-> "ok", v |-> IF negative THEN -DigitsValue(digits, 0) ELSE DigitsValue(digits, 0)]
    ELSE [tag |-> "ValueError", v |-> 0]

ParseStripped(body) ==
    IF body # <<>> /\ Head(body) \in {"+", "-"}
    THEN ParseSigned(Head(body) = "-", Tail(body))
    ELSE ParseSigned(FALSE, body)

ParseInt(chars) == ParseStripped(Strip(chars))

\* a conversion that accepts integers only
IntOfIntegersOnly(days) ==
    IF days.type = "int" THEN [tag |-> "ok", v |-> days.v] ELSE [tag |-> "TypeError", v |-> 0]

\* int(days); a float is truncated towards zero
IntOf(days) ==
    CASE days.type = "int"   -> [tag |-> "ok", v |-> days.v]
      [] days.type = "float" -> [tag |-> "ok",
                                 v |-> IF days.v < 0 THEN -((-days.v) \div 10) ELSE days.v \div 10]
      [] days.type = "str"   -> ParseInt(days.text)
      [] OTHER               -> [tag |-> "TypeError", v |-> 0]

\* the default without the clamp
ClampDaysOpen(n) == IF n.tag = "ok" THEN n.v ELSE 3

\* lines 69-73
ClampDays(n) == IF n.tag = "ok" THEN Min(Max(n.v, 1), 5) ELSE 3
NormalizeDays(days) == ClampDays(IntOf(days))

DaysInputs ==
    {DaysInt(n) : n \in {-1, 0, 1, 2, 3, 5, 6, 99}}
    \cup {DaysFloat(27), DaysStr(<<"a","b","c">>), DaysStr(<<"4">>), DaysStr(<<"2",".","7">>), DaysNone}

\* get_weather
ToolGetWeather(city, units, key, http) ==
    IF IsEmptyCity(city)
    THEN [out |-> Returned(EmptyCityError("City")), http |-> <<>>]
    ELSE WeatherCurrentWeather(Strip(city), NormalizeUnits(units), key, http)

\* get_weather_forecast
ToolGetWeatherForecast(city, days, units, key, http) ==
    IF IsEmptyCity(city)
    THEN [out |-> Returned(EmptyCityError("City")), http |-> <<>>]
    ELSE WeatherForecast(Strip(city), NormalizeUnits(units), NormalizeDays(days), key, http)

\* get_current_time
ToolGetCurrentTime(city, format_type, fault, t1, t2) ==
    IF IsEmptyCity(city)
    THEN NoCalls(EmptyCityError("City"))
    ELSE TimeCurrentTime(Strip(city), NormalizeFormat(format_type), 1, fault, t1, t2)

\* the comparison without lower(): case-sensitive
SameCityExact(city1, city2) == Strip(city1) = Strip(city2)

\* line 131
SameCity(city1, city2) == Lower(Strip(city1)) = Lower(Strip(city2))

\* lines 132-140
SameCityEnvelope(city1, city2) ==
    SuccessEnvelope([relation |-> "same_city", city |-> Title(city1)],
                    [city1 |-> city1, city2 |-> city2, difference_hours |-> 0])

\* get_time_difference
ToolGetTimeDifference(city1, city2, fault, t) ==
    CASE IsEmptyCity(city1)     -> NoCalls(EmptyCityError("First city"))
      [] IsEmptyCity(city2)     -> NoCalls(EmptyCityError("Second city"))
      [] SameCity(city1, city2) -> NoCalls(SameCityEnvelope(Strip(city1), Strip(city2)))
      [] OTHER                  -> TimeTimeDifference(Strip(city1), Strip(city2), fault, t)

\* the cap on the cities of one world clock (lines 174-175)
MaxWorldCities == 10

\* lines 162-165
CleanCities(cities) == SelectSeq([i \in DOMAIN cities |-> Strip(cities[i])], Truthy)

\* line 174: is the list cut
IsTruncated(cities, clean_cities) == Len(clean_cities) > MaxWorldCities

\* line 175
Kept(clean_cities) ==
    IF Len(clean_cities) > MaxWorldCities THEN SubSeq(clean_cities, 1, MaxWorldCities)
    ELSE clean_cities

\* line 183: is the note appended to the result
NoteAppended(truncated, result) == truncated /\ result.status = "success"

\* a note that counts the cleaned list instead of the list supplied
TruncationNoteCleaned(cities) ==
    [segment |-> "note", limit |-> MaxWorldCities, provided |-> Len(CleanCities(cities))]

\* line 176
TruncationNote(cities) == [segment |-> "note", limit |-> MaxWorldCities, provided |-> Len(cities)]

\* lines 182-186
WithNote(cities, truncated, call) ==
    IF call.out.kind = "returned" /\ NoteAppended(truncated, call.out.value)
    THEN [call EXCEPT !.out.value.report = Append(@, TruncationNote(cities))]
    ELSE call

\* lines 167-186, for the cleaned list
WorldClockFor(cities, clean_cities, fault, t1, t2) ==
    IF clean_cities = <<>>
    THEN NoCalls(ErrorEnvelope([kind |-> "no_valid_city"]))
    ELSE Force(LAMBDA call : WithNote(cities, IsTruncated(cities, clean_cities), call),
               TimeWorldClock(Kept(clean_cities), fault, t1, t2))

\* get_world_clock
ToolGetWorldClock(cities, fault, t1, t2) ==
    IF cities = <<>>
    THEN NoCalls(ErrorEnvelope([kind |-> "no_city_list"]))
    ELSE Force(LAMBDA clean_cities : WorldClockFor(cities, clean_cities, fault, t1, t2),
               CleanCities(cities))

\* a failed lookup that also hands back the info dictionary
CityInfoEnvelopeWithData(city, call) ==
    IF call.tag = "raise"
    THEN [out |-> Raised(call.exc), geo |-> call.geo, lookups |-> call.lookups, reads |-> <<>>]
    ELSE [out |-> Returned([status |-> IF call.info.success THEN "success" ELSE "error",
                            error_message |-> "", data |-> call.info]),
          geo |-> call.geo, lookups |-> call.lookups, reads |-> <<>>]

\* lines 207-223, for the info dictionary
CityInfoEnvelope(city, call) ==
    IF call.tag = "raise"
    THEN [out |-> Raised(call.exc), geo |-> call.geo, lookups |-> call.lookups, reads |-> <<>>]
    ELSE [out |-> IF call.info.success
                  THEN Returned(SuccessEnvelope(
                          [city |-> Title(city), latitude |-> call.info.latitude,
                           longitude |-> call.info.longitude, timezone |-> call.info.timezone,
                           full_address |-> call.info.full_address,
                           country |-> call.info.country],
                          call.info))
                  ELSE Returned(ErrorEnvelope(call.info.error)),
          geo |-> call.geo, lookups |-> call.lookups, reads |-> <<>>]

\* get_city_info
ToolGetCityInfo(city, fault) ==
    IF IsEmptyCity(city)
    THEN NoCalls(EmptyCityError("City"))
    ELSE CityInfoEnvelope(city, LocationCityInfo(Strip(city), fault))

(***************************************************************************)
(* The state machine.  The agent framework calls one tool at a time: a     *)
(* request is served in one step, from its validation to its envelope, and *)
(* the framework then takes the result.                                    *)
(***************************************************************************)
WeatherCities == CityInputs \cup {sLagos, sSydney}
DifferenceCities == CityInputs \cup {sLagos, sTehran}
ForecastCities == {sParis, sParisLoud, sAtlantis, sEmpty, sBlank}

\* city lists: k times a, then b up to length n
WorldClockPool == {sParisLoud, sAtlantis, sBlank}
Mix(a, b, n, k) == [i \in 1..n |-> IF i <= k THEN a ELSE b]
WorldClockInputs ==
    {Mix(a, b, n, k) : a \in WorldClockPool, b \in WorldClockPool, n \in 0..MaxList, k \in 0..MaxList}

Idle == op = "idle"

\* no request is being looked at: nothing was asked of the environment
Quiet == [fault |-> NoFault, http |-> NoHttp]

Init ==
    /\ has_api_key \in BOOLEAN
    /\ clock = 0
    /\ op = "idle"
    /\ args = <<>>
    /\ env = Quiet
    /\ resp = [kind |-> "none"]
    /\ geocode_log = <<>>
    /\ tz_lookups = 0
    /\ http_log = <<>>
    /\ reads = <<>>

\* time passes between requests
Tick ==
    /\ Idle
    /\ clock < MaxClock
    /\ clock' = clock + 1
    /\ UNCHANGED <<has_api_key, op, args, env, resp, geocode_log, tz_lookups, http_log, reads>>

\* a request of the weather tools
ServeWeather(name, arguments, http, call) ==
    /\ op' = name
    /\ args' = arguments
    /\ env' = [fault |-> NoFault, http |-> http]
    /\ resp' = call.out
    /\ http_log' = call.http
    /\ geocode_log' = <<>>
    /\ tz_lookups' = 0
    /\ reads' = <<>>
    /\ UNCHANGED <<has_api_key, clock>>

\* a request of the time and location tools: the clock may advance by drift
\* between the first and the second clock read of the request
ServeTimed(name, arguments, fault, call, drift) ==
    /\ op' = name
    /\ args' = arguments
    /\ env' = [fault |-> fault, http |-> NoHttp]
    /\ resp' = call.out
    /\ geocode_log' = call.geo
    /\ tz_lookups' = call.lookups
    /\ reads' = call.reads
    /\ http_log' = <<>>
    /\ clock' = IF Len(call.reads) > 1 THEN clock + drift ELSE clock
    /\ UNCHANGED has_api_key

GetWeather ==
    /\ Idle
    /\ \E city \in WeatherCities, units \in UnitInputs,
          http \in (IF has_api_key THEN HttpOutcomes(WeatherBodies) ELSE {NoHttp}) :
         ServeWeather("get_weather", [city |-> city, units |-> units], http,
                      ToolGetWeather(city, units, has_api_key, http))

GetWeatherForecast ==
    /\ Idle
    /\ \E city \in ForecastCities, days \in DaysInputs, units \in UnitInputs,
          http \in (IF has_api_key THEN HttpOutcomes(ForecastBodies) ELSE {NoHttp}) :
         ServeWeather("get_weather_forecast", [city |-> city, days |-> days, units |-> units], http,
                      ToolGetWeatherForecast(city, days, units, has_api_key, http))

GetCurrentTime ==
    /\ Idle
    /\ \E city \in CityInputs, format_type \in FormatInputs, fault \in Faults,
          drift \in 0..MaxDrift :
         /\ clock + drift <= MaxClock
         /\ ServeTimed("get_current_time", [city |-> city, format_type |-> format_type], fault,
                       ToolGetCurrentTime(city, format_type, fault, clock, clock + drift), drift)

GetTimeDifference ==
    /\ Idle
    /\ \E city1 \in DifferenceCities, city2 \in DifferenceCities, fault \in Faults :
         ServeTimed("get_time_difference", [city1 |-> city1, city2 |-> city2], fault,
                    ToolGetTimeDifference(city1, city2, fault, clock), 0)

GetWorldClock ==
    /\ Idle
    /\ \E cities \in WorldClockInputs, fault \in Faults, drift \in 0..MaxDrift :
         /\ clock + drift <= MaxClock
         /\ ServeTimed("get_world_clock", [cities |-> cities], fault,
                       ToolGetWorldClock(cities, fault, clock, clock + drift), drift)

GetCityInfo ==
    /\ Idle
    /\ \E city \in CityInputs, fault \in Faults :
         ServeTimed("get_city_info", [city |-> city], fault, ToolGetCityInfo(city, fault), 0)

\* the framework takes the result; the agent is ready for the next call
Return ==
    /\ ~Idle
    /\ op' = "idle"
    /\ args' = <<>>
    /\ env' = Quiet
    /\ resp' = [kind |-> "none"]
    /\ geocode_log' = <<>>
    /\ tz_lookups' = 0
    /\ http_log' = <<>>
    /\ reads' = <<>>
    /\ UNCHANGED <<has_api_key, clock>>

Next ==
    \/ Tick
    \/ GetWeather
    \/ GetWeatherForecast
    \/ GetCurrentTime
    \/ GetTimeDifference
    \/ GetWorldClock
    \/ GetCityInfo
    \/ Return

Spec == Init /\ [][Next]_vars

(***************************************************************************)
(* Properties.                                                             *)
(***************************************************************************)
Answered == op # "idle" /\ resp.kind = "returned"
Succeeded == Answered /\ resp.value.status = "success"
Failed == Answered /\ resp.value.status = "error"

\* empty or whitespace-only
Blank(s) == \A i \in DOMAIN s : IsSpace(s[i])

IsEnvelope(v) ==
    /\ "status" \in DOMAIN v
    /\ \/ v.status = "success" /\ DOMAIN v = {"status", "report", "data"}
       \/ v.status = "error" /\ DOMAIN v = {"status", "error_message"}

\* C1: every result a tool returns is an envelope: status success with report
\* and data and no error_message, or status error with error_message and
\* neither report nor data.
C1_EnvelopeShape == resp.kind = "returned" => IsEnvelope(resp.value)

C1_Witness ==
    /\ op = "get_world_clock"
    /\ Succeeded
    /\ resp.value.data.errors # <<>>

\* C2: no tool operation raises past its own boundary, whatever the geocoder,
\* the timezone lookup and the weather provider do.
C2_NeverRaises == resp.kind # "raised"

\* the message of the standard error for an empty argument
EmptyArgument(which) == ErrorEnvelope([kind |-> "empty_city", argument |-> which])

NoProviderCall == geocode_log = <<>> /\ http_log = <<>>

\* C3: an empty or whitespace-only city gives status error with a message
\* naming the empty argument, and neither the geocoder nor the weather
\* provider is called.
C3_EmptyCityRejected ==
    /\ (op \in {"get_weather", "get_weather_forecast", "get_current_time", "get_city_info"}
        /\ Blank(args.city))
       => (resp = Returned(EmptyArgument("City")) /\ NoProviderCall)
    /\ (op = "get_time_difference" /\ Blank(args.city1))
       => (resp = Returned(EmptyArgument("First city")) /\ NoProviderCall)
    /\ (op = "get_time_difference" /\ ~Blank(args.city1) /\ Blank(args.city2))
       => (resp = Returned(EmptyArgument("Second city")) /\ NoProviderCall)

C3_Witness ==
    /\ op = "get_time_difference"
    /\ args.city1 = sParis
    /\ args.city2 = sBlank
    /\ Failed

\* the minutes a "+HHMM" offset stands for
ParseZ(z) == (IF z.sign = "-" THEN -1 ELSE 1) * (z.hh * 60 + z.mm)

\* C4: in a current_time success, local_time and utc_time are one instant from
\* one clock read: their wall-clock difference is exactly utc_offset.
C4_SameInstant ==
    (op = "get_current_time" /\ Succeeded)
    => /\ resp.value.data.local_time.wall - resp.value.data.utc_time.wall
            = ParseZ(resp.value.data.utc_offset) * 60
       /\ \A i \in DOMAIN reads : reads[i] = reads[1]

\* the cities get_world_clock processes: the first ten of the list, trimmed
Processed(cities) ==
    [i \in 1..Min(Len(cities), 10) |-> Strip(cities[i])]

\* does the environment resolve the city asked for in the k-th geocoder call
ZoneIsKnown(zone) == zone.tag = "ok" /\ zone.tz \in TzDatabase
PlaceResolves(answer) ==
    answer.tag = "ok" /\ ZoneIsKnown(timezone_at(answer.place.lat, answer.place.lon))
Resolves(city, k) == PlaceResolves(GeocodeCall(city, k, env.fault))

\* the j-th member of a set of indices
Nth(idx, j) == CHOOSE i \in idx : Cardinality({m \in idx : m <= i}) = j

WorldClockAccounts(cities, ok, bad) ==
    /\ Failed => ok = {}
    /\ ok # {} => Succeeded
    /\ Succeeded =>
        /\ Len(resp.value.data.results) = Cardinality(ok)
        /\ \A j \in DOMAIN resp.value.data.results :
              resp.value.data.results[j].city = Title(cities[Nth(ok, j)])
        /\ Len(resp.value.data.errors) = Cardinality(bad)
        /\ \A j \in DOMAIN resp.value.data.errors :
              resp.value.data.errors[j].city = cities[Nth(bad, j)]
        /\ resp.value.data.successful_cities = Len(resp.value.data.results)
        /\ Len(resp.value.data.results) + Len(resp.value.data.errors) = Len(cities)

AllValid(cities) == cities # <<>> /\ \A i \in DOMAIN cities : ~Blank(cities[i])

\* C5: over a non-empty list of valid names, get_world_clock returns error
\* only if every processed city failed to resolve; otherwise success, with
\* results exactly the resolved cities in input order, one error per failed
\* city, successful_cities the length of results, and results and errors
\* together accounting for every processed city.
C5_PartialFailure ==
    (op = "get_world_clock" /\ AllValid(args.cities))
    => /\ Answered
       /\ WorldClockAccounts(Processed(args.cities),
            {i \in DOMAIN Processed(args.cities) : Resolves(Processed(args.cities)[i], i)},
            {i \in DOMAIN Processed(args.cities) : ~Resolves(Processed(args.cities)[i], i)})

\* the non-blank entries of a list, trimmed
NonBlank(cities) == SelectSeq([i \in DOMAIN cities |-> Strip(cities[i])], LAMBDA c : c # <<>>)

IsPrefix(s, t) == Len(s) <= Len(t) /\ \A i \in DOMAIN s : s[i] = t[i]

\* the report ends with the note, after every line of the listing
NoteClosesReport(report, provided) ==
    /\ report[Len(report)] = [segment |-> "note", limit |-> 10, provided |-> provided]
    /\ \A i \in 1..(Len(report) - 1) : report[i].segment # "note"

\* C6 as claimed, read over lists of more than 10 non-blank names and over
\* the requests that return: get_world_clock resolves only the
\* first 10 and the returned report contains a truncation note, after the
\* listing, that mentions 10 and the number of cities supplied.
C6_AlwaysNoted ==
    (op = "get_world_clock" /\ Answered /\ Len(NonBlank(args.cities)) > 10)
    => /\ Len(geocode_log) <= 10
       /\ Succeeded
       /\ NoteClosesReport(resp.value.report, Len(args.cities))

\* C6 as amended: given more than 10 non-blank cities, get_world_clock
\* resolves only the first 10 of them, in input order, and when it returns
\* success the report ends with a truncation note, after the listing, that
\* mentions 10 and the length of the list supplied.
C6_NotedOnSuccess ==
    (op = "get_world_clock" /\ Len(NonBlank(args.cities)) > 10)
    => /\ IsPrefix(geocode_log, SubSeq(NonBlank(args.cities), 1, 10))
       /\ Answered => Len(geocode_log) = 10
       /\ Succeeded => NoteClosesReport(resp.value.report, Len(args.cities))

C6_Witness ==
    /\ op = "get_world_clock"
    /\ Len(args.cities) = 12
    /\ Len(NonBlank(args.cities)) = 11
    /\ Succeeded
    /\ Len(resp.value.data.errors) = 1

\* C7: get_time_difference of two non-empty cities that are equal after
\* trimming and case-folding returns success with difference_hours 0 and
\* asks neither the geocoder nor the timezone index.
C7_SameCityShortCircuit ==
    (op = "get_time_difference" /\ ~Blank(args.city1) /\ ~Blank(args.city2)
     /\ Lower(Strip(args.city1)) = Lower(Strip(args.city2)))
    => /\ Succeeded
       /\ resp.value.data.difference_hours = 0
       /\ geocode_log = <<>>
       /\ tz_lookups = 0

C7_Witness ==
    /\ op = "get_time_difference"
    /\ args.city1 = sParis
    /\ args.city2 = sParisLoud
    /\ Succeeded

\* the offset, in minutes, of the zone the environment gives a city at instant t
ZoneOf(answer) == timezone_at(answer.place.lat, answer.place.lon).tz
OffsetOf(city, t) == UtcOffset(ZoneOf(Lookup(Lower(Strip(city)))), t)
BothResolve(city1, city2) ==
    /\ ~Blank(city1) /\ ~Blank(city2)
    /\ PlaceResolves(GeocodeCall(Strip(city1), 1, env.fault))
    /\ PlaceResolves(GeocodeCall(Strip(city2), 2, env.fault))
    /\ PlaceResolves(GeocodeCall(Strip(city2), 1, env.fault))
    /\ PlaceResolves(GeocodeCall(Strip(city1), 2, env.fault))

\* the answer to the same question with the cities swapped, at instant t
Swapped(t) == ToolGetTimeDifference(args.city2, args.city1, env.fault, t).out

\* C8: for cities A and B that both resolve, at one UTC instant,
\* difference_hours of (A,B) is the negation of that of (B,A) and equals
\* offset(A) - offset(B).
C8_Antisymmetric ==
    (op = "get_time_difference" /\ BothResolve(args.city1, args.city2))
    => /\ Succeeded
       /\ resp.value.data.difference_hours
            = OffsetOf(args.city1, clock) - OffsetOf(args.city2, clock)
       /\ Swapped(clock).kind = "returned"
       /\ Swapped(clock).value.status = "success"
       /\ resp.value.data.difference_hours = -Swapped(clock).value.data.difference_hours

C8_Witness ==
    /\ op = "get_time_difference"
    /\ args.city1 = sDelhi
    /\ args.city2 = sParis
    /\ Succeeded
    /\ resp.value.data.difference_hours = 270

\* the five cities of the offline table
FiveMockCities ==
    { <<"n","e","w"," ","y","o","r","k">>, <<"l","o","n","d","o","n">>, <<"l","a","g","o","s">>,
      <<"p","a","r","i","s">>, <<"s","y","d","n","e","y">> }

\* C9: with no credential, get_weather succeeds exactly when the trimmed,
\* lower-cased city is one of the five mock cities, fails for every other
\* non-empty city, and makes no HTTP call.
C9_MockCitiesOnly ==
    (op = "get_weather" /\ ~has_api_key /\ ~Blank(args.city))
    => /\ Answered
       /\ Succeeded <=> Lower(Strip(args.city)) \in FiveMockCities
       /\ Failed <=> Lower(Strip(args.city)) \notin FiveMockCities
       /\ http_log = <<>>

C9_Witness ==
    /\ op = "get_weather"
    /\ ~has_api_key
    /\ args.city = sSydney
    /\ Succeeded

\* C10: with no credential, get_weather_forecast returns error for every city,
\* days and units, and makes no HTTP call.
C10_ForecastNeedsKey ==
    (op = "get_weather_forecast" /\ ~has_api_key) => (Failed /\ http_log = <<>>)

C10_Witness ==
    /\ op = "get_weather_forecast"
    /\ ~has_api_key
    /\ args.city = sParis
    /\ args.days = DaysInt(3)
    /\ Failed
    /\ resp.value.error_message.kind = "forecast_requires_key"

\* the request was served as call would have been
SameAs(call) == resp = call.out /\ http_log = call.http

\* the forecast request with the same city, units and provider answer, for days
ForecastWith(days) ==
    ToolGetWeatherForecast(args.city, DaysInt(days), args.units, has_api_key, env.http)

Clamped(n) == IF n < 1 THEN 1 ELSE IF n > 5 THEN 5 ELSE n

sAbc == <<"a","b","c">>

\* C11: for every integer days, get_weather_forecast delegates with days
\* clamped to min(max(days,1),5): 0 behaves as 1, 99 as 5, and the
\* non-numeric string "abc" behaves as 3.
C11_DaysClamped ==
    /\ (op = "get_weather_forecast" /\ args.days.type = "int")
       => /\ SameAs(ForecastWith(Clamped(args.days.v)))
          /\ http_log # <<>> => http_log[1].cnt = 8 * Clamped(args.days.v)
    /\ (op = "get_weather_forecast" /\ args.days = DaysStr(sAbc))
       => /\ SameAs(ForecastWith(3))
          /\ http_log # <<>> => http_log[1].cnt = 24

C11_Witness ==
    /\ op = "get_weather_forecast"
    /\ args.days = DaysInt(0)
    /\ Succeeded
    /\ http_log # <<>>
    /\ http_log[1].cnt = 8
    /\ Len(resp.value.data.forecasts) = 1

\* C12 as claimed: any days argument that is not an integer (a fractional
\* number, a numeric string, None) is served with the default of 3 days.
C12_NonIntegerIsThree ==
    (op = "get_weather_forecast" /\ args.days.type # "int") => SameAs(ForecastWith(3))

\* the days int() makes of a value that is not an integer, 3 where it raises
\* ValueError or TypeError
Truncated(tenths) == IF tenths < 0 THEN -((-tenths) \div 10) ELSE tenths \div 10
DaysOf(days) ==
    CASE days.type = "float" -> Clamped(Truncated(days.v))
      [] days.type = "str" /\ ParseInt(days.text).tag = "ok" -> Clamped(ParseInt(days.text).v)
      [] OTHER -> 3

\* C12 as amended: a days argument that int() converts (a fractional number,
\* truncated towards zero; a string of decimal digits) is served with the
\* converted value clamped into 1..5; only a value int() rejects (None, a
\* string that is not an integer literal) is served with the default of 3.
C12_ConvertedOrThree ==
    (op = "get_weather_forecast" /\ args.days.type # "int")
    => /\ SameAs(ForecastWith(DaysOf(args.days)))
       /\ http_log # <<>> => http_log[1].cnt = 8 * DaysOf(args.days)

C12_Witness ==
    /\ op = "get_weather_forecast"
    /\ args.days = DaysStr(<<"4">>)
    /\ http_log # <<>>
    /\ http_log[1].cnt = 32

ThreeUnits ==
    { <<"m","e","t","r","i","c">>, <<"i","m","p","e","r","i","a","l">>, <<"k","e","l","v","i","n">> }

\* C13: get_weather with units outside metric, imperial and kelvin (whatever
\* the case) makes the same provider request and returns the same envelope
\* as with units metric, for every city and with or without a credential.
C13_UnknownUnitsAreMetric ==
    (op = "get_weather" /\ Lower(args.units) \notin ThreeUnits)
    => /\ SameAs(ToolGetWeather(args.city, <<"m","e","t","r","i","c">>, has_api_key, env.http))
       /\ http_log # <<>> => http_log[1].units = <<"m","e","t","r","i","c">>

C13_Witness ==
    /\ op = "get_weather"
    /\ args.units = sBogus
    /\ has_api_key
    /\ Succeeded
    /\ http_log # <<>>
    /\ resp.value.data.units = <<"m","e","t","r","i","c">>

\* the geocoder finds the place but the timezone index has nothing there
NoZoneAt(answer) ==
    answer.tag = "ok" /\ timezone_at(answer.place.lat, answer.place.lon).tag = "none"
NoZoneFor(city, k) == NoZoneAt(GeocodeCall(Strip(city), k, env.fault))

\* the same request answered when the geocoder has no match for the first city
NoMatch == [at |-> 1, kind |-> "nomatch"]
IfNotFound ==
    CASE op = "get_city_info"     -> ToolGetCityInfo(args.city, NoMatch).out
      [] op = "get_current_time"  ->
            ToolGetCurrentTime(args.city, args.format_type, NoMatch, clock, clock).out
      [] OTHER -> ToolGetTimeDifference(args.city1, args.city2, NoMatch, clock).out

\* C14: when the geocoder yields coordinates but the timezone lookup yields
\* nothing for them, city_info, current_time and time_difference return an
\* error that differs from the location-not-found error, never a success
\* with an absent timezone.
C14_TimezoneNotFound ==
    /\ (op \in {"get_city_info", "get_current_time"} /\ ~Blank(args.city)
        /\ NoZoneFor(args.city, 1))
       => (Failed /\ resp # IfNotFound)
    /\ (op = "get_time_difference" /\ ~Blank(args.city1) /\ ~Blank(args.city2)
        /\ Lower(Strip(args.city1)) # Lower(Strip(args.city2)) /\ NoZoneFor(args.city1, 1))
       => (Failed /\ resp # IfNotFound)

WeatherFields == {"temperature", "feels_like", "condition", "humidity", "wind_speed", "units"}

\* C15: every successful current_weather envelope, live or from the offline
\* table, carries data with temperature, feels_like, condition, humidity,
\* wind_speed and units.
C15_WeatherFields ==
    (op = "get_weather" /\ Succeeded) => WeatherFields \subseteq DOMAIN resp.value.data

\* C16: resolving one city makes exactly one geocoder call: a get_city_info
\* or get_current_time request for a non-empty city, succeeding or failing,
\* calls the geocoding provider exactly once.
C16_OneGeocoderCall ==
    (op \in {"get_city_info", "get_current_time"} /\ ~Blank(args.city))
    => Len(geocode_log) = 1

\* the provider answered with a status other than 200, as the HTTP status or
\* as the cod of the body
ProviderRefused ==
    \/ env.http.kind = "http_error"
    \/ env.http.kind = "json" /\ ~env.http.body.empty /\ env.http.body.cod.value # 200

\* C17: with a credential, when the provider answers a current_weather or
\* forecast request with a non-200 status and a message, the error envelope
\* carries the provider's message; the generic message is for the answers
\* without one.
C17_ProviderMessage ==
    (op \in {"get_weather", "get_weather_forecast"} /\ has_api_key /\ ~Blank(args.city)
     /\ ProviderRefused /\ env.http.body.has_message)
    => /\ Failed
       /\ resp.value.error_message
            = [kind |-> "provider_message", message |-> env.http.body.message]

\* the provider answered 200 with a body
Answered200(cod) ==
    env.http.kind = "json" /\ ~env.http.body.empty /\ env.http.body.cod = cod

\* C18: with a credential and a status-200 answer, current_weather is an
\* error whenever the payload lacks main, weather or wind, forecast is an
\* error whenever the payload lacks the list, and success needs all of them.
C18_ShapeValidated ==
    /\ (op = "get_weather" /\ has_api_key /\ ~Blank(args.city)
        /\ Answered200([type |-> "int", value |-> 200])
        /\ (~env.http.body.has_main \/ ~env.http.body.has_weather \/ ~env.http.body.has_wind))
       => Failed
    /\ (op = "get_weather_forecast" /\ has_api_key /\ ~Blank(args.city)
        /\ Answered200([type |-> "str", value |-> 200]) /\ ~env.http.body.has_list)
       => Failed

\* the days a request is served with
ServedDays(days) == IF days.type = "int" THEN Clamped(days.v) ELSE DaysOf(days)

\* how many of the indices 0, 8, 16, ... lie below stop
EveryEighthBelow(stop) == (stop + 7) \div 8

\* the entries of a series at the 0-based indices 0, 8, 16, ... below 8 * d
EveryEighth(series, d) ==
    [j \in 1..EveryEighthBelow(IF Len(series) < 8 * d THEN Len(series) ELSE 8 * d)
        |-> series[8 * (j - 1) + 1]]

ForecastSampled(series, d) ==
    /\ resp.value.data.forecasts = EveryEighth(series, d)
    /\ Len(resp.value.data.forecasts) <= d
    /\ Len(series) = 8 * d => Len(resp.value.data.forecasts) = d

\* C19: a successful forecast over a series of n entries, for clamped days d,
\* returns in series order exactly the entries at indices 0, 8, 16, ... below
\* min(n, 8d), never more than d of them, and exactly d when the series has
\* the 8d entries asked for.
C19_EveryEighthEntry ==
    (op = "get_weather_forecast" /\ Succeeded)
    => ForecastSampled(env.http.body.list, ServedDays(args.days))

C19_Witness ==
    /\ op = "get_weather_forecast"
    /\ Succeeded
    /\ args.days = DaysInt(5)
    /\ Len(env.http.body.list) = 17
    /\ Len(resp.value.data.forecasts) = 3

\* the lookup of a city's timezone fails: no coordinates, or no zone there
Unresolvable(answer) ==
    ~(answer.tag = "ok" /\ timezone_at(answer.place.lat, answer.place.lon).tag = "ok")
UnresolvableCity(city, k) == Unresolvable(GeocodeCall(Strip(city), k, env.fault))

\* the error envelope names the city
ErrorNames(city) ==
    /\ Failed
    /\ "city" \in DOMAIN resp.value.error_message
    /\ resp.value.error_message.city = Strip(city)

\* C20: in time_difference of two distinct cities, an unresolvable city1
\* gives an error naming city1 (also when city2 is unresolvable), an
\* unresolvable city2 alone gives an error naming city2, and success needs
\* both to resolve.
C20_EitherFailureNamed ==
    (op = "get_time_difference" /\ ~Blank(args.city1) /\ ~Blank(args.city2)
     /\ Lower(Strip(args.city1)) # Lower(Strip(args.city2)))
    => /\ UnresolvableCity(args.city1, 1) => ErrorNames(args.city1)
       /\ (~UnresolvableCity(args.city1, 1) /\ UnresolvableCity(args.city2, 2))
            => ErrorNames(args.city2)
       /\ Succeeded
            => (~UnresolvableCity(args.city1, 1) /\ ~UnresolvableCity(args.city2, 2))

\* the magnitude of m minutes is rendered as whole hours, or as hours and
\* minutes, each word in the singular exactly for 1
RendersMagnitude(str, m) ==
    /\ 60 * str.hours + str.minutes = m
    /\ str.minutes \in 0..59
    /\ str.with_minutes <=> (m % 60 # 0)
    /\ str.hour_word = (IF str.hours = 1 THEN "hour" ELSE "hours")
    /\ str.with_minutes => str.minute_word = (IF str.minutes = 1 THEN "minute" ELSE "minutes")

\* the report for offsets a of city1 and b of city2, in minutes
ReportsDifference(report, a, b) ==
    /\ a = b => report.relation = "same_zone"
    /\ a # b =>
        /\ report.relation = "ahead"
        /\ report.ahead_city = Title(Strip(IF a > b THEN args.city1 ELSE args.city2))
        /\ report.behind_city = Title(Strip(IF a > b THEN args.city2 ELSE args.city1))
        /\ RendersMagnitude(report.time_diff_str, IF a > b THEN a - b ELSE b - a)

\* C21: in a successful time_difference the city reported ahead is the one
\* with the larger UTC offset at the shared instant; the magnitude is whole
\* hours, or H hours and M minutes with 60*H + M the absolute difference in
\* minutes, singular exactly when H or M is 1; a zero difference reports
\* that the cities are in the same time zone.
C21_AheadAndMagnitude ==
    (op = "get_time_difference" /\ Succeeded
     /\ Lower(Strip(args.city1)) # Lower(Strip(args.city2)))
    => ReportsDifference(resp.value.report, OffsetOf(args.city1, clock),
                         OffsetOf(args.city2, clock))

C21_Witness ==
    /\ op = "get_time_difference"
    /\ args.city1 = sParis
    /\ args.city2 = sTehran
    /\ Succeeded
    /\ resp.value.report.ahead_city = <<"T","e","h","r","a","n">>
    /\ resp.value.report.time_diff_str.hours = 1
    /\ resp.value.report.time_diff_str.hour_word = "hour"
    /\ resp.value.report.time_diff_str.minutes = 30

\* the answer to the same get_weather request with units u
WeatherWith(u) == ToolGetWeather(args.city, u, has_api_key, env.http).out

\* C22: with no credential, get_weather returns the same envelope for a city
\* whatever the units (metric, imperial, kelvin or unrecognized): the mock
\* reading is reported in metric symbols and data carries no units tag.
C22_OfflineIgnoresUnits ==
    (op = "get_weather" /\ ~has_api_key)
    => /\ \A u \in {sMetric, sImperial, sKelvin, sMetricUp, sBogus} : resp = WeatherWith(u)
       /\ Succeeded => /\ resp.value.report.temp_unit = "C"
                       /\ resp.value.report.speed_unit = "m/s"
                       /\ "units" \notin DOMAIN resp.value.data

C22_Witness ==
    /\ op = "get_weather"
    /\ ~has_api_key
    /\ args.city = sParis
    /\ args.units = sImperial
    /\ Succeeded
    /\ resp = WeatherWith(sMetric)
====
